---- MODULE Spec2Model ----
(***************************************************************************)
(* Model of mirror_code.py: a top-down os.walk over source_dir that        *)
(* recreates every visited directory under destination_dir and copies      *)
(* every non-excluded file as text into <root of name>.txt.                *)
(*                                                                         *)
(* A name is the sequence of its maximal dot-free runs and its dots        *)
(* ("x.d.ts" is <<"x", ".", "d", ".", "ts">>), which is all os.path.splitext *)
(* looks at.  A path is the sequence of names below source_dir (<<>> is    *)
(* source_dir itself).  A file's content is its sequence of bytes, of      *)
(* which only the line ends and the bytes that are not UTF-8 matter.       *)
(***************************************************************************)
EXTENDS Integers, Sequences, FiniteSets, TLC

\* ---------------------------------------------------------------- bounds
\* How many times the script is run in a row.
MaxRuns == 2
\* How many entries the tree holds before the first run.
MaxEntries == 2
\* No path of the model is longer than this; a run adds one level at most.
MaxDepth == MaxRuns + 3

\* ------------------------------------------------------- configuration
DOT == "."

\* destination_dir, relative to source_dir (line 4: source_dir + "/googleone")
destination_dir == << <<"googleone">> >>

skip_dirs ==
    { <<"android">>, <<"ios">>, <<"node_modules">>, <<DOT, "git">>,
      <<DOT, "expo">>, <<DOT, "vscode">>, <<DOT, "idea">>, <<"coverage">>,
      <<"dist">>, <<"build">>, <<"__tests__">>, <<"Pods">>, <<"xcshareddata">> }

skip_extensions ==
    { <<DOT, "map">>, <<DOT, "d", DOT, "ts">>, <<DOT, "ttf">>, <<DOT, "png">>,
      <<DOT, "jpg">>, <<DOT, "jpeg">>, <<DOT, "webp">> }

skip_files ==
    { <<DOT, "DS_Store">>, <<"LICENSE">>, <<"README", DOT, "md">>,
      <<"package-lock", DOT, "json">>, <<"project_tree", DOT, "txt">> }

\* ------------------------------------------------------------- helpers
Last(s) == s[Len(s)]
Front(s) == SubSeq(s, 1, Len(s) - 1)
IsPrefix(p, q) == Len(p) <= Len(q) /\ SubSeq(q, 1, Len(p)) = p
Range(s) == { s[i] : i \in 1..Len(s) }

\* Every order a directory listing can come in (os.scandir promises none).
Orders(S) ==
    { s \in [1..Cardinality(S) -> S] : \A e \in S : \E i \in 1..Cardinality(S) : s[i] = e }

RECURSIVE Keep(_, _)
\* [x for x in s if x not in drop]
Keep(s, drop) ==
    IF s = <<>> THEN <<>>
    ELSE IF Head(s) \in drop THEN Keep(Tail(s), drop)
    ELSE <<Head(s)>> \o Keep(Tail(s), drop)

\* ---------------------------------------------------- os.path.splitext
\* The index of the last dot of a name, 0 when it has none (str.rfind).
rfindDot(name) ==
    IF \E i \in 1..Len(name) : name[i] = DOT
    THEN CHOOSE i \in 1..Len(name) :
            name[i] = DOT /\ \A j \in (i + 1)..Len(name) : name[j] # DOT
    ELSE 0

\* genericpath._splitext on a bare file name: the extension starts at the
\* last dot, unless only dots come before it (a leading-dot name has none).
splitext(name) ==
    LET dotIndex == rfindDot(name) IN
    IF dotIndex > 0 /\ \E i \in 1..(dotIndex - 1) : name[i] # DOT
    THEN <<SubSeq(name, 1, dotIndex - 1), SubSeq(name, dotIndex, Len(name))>>
    ELSE <<name, <<>>>>

\* line 26: the file filter
Excluded(file) == file \in skip_files \/ splitext(file)[2] \in skip_extensions

\* A slip of line 30: ".txt" is added to the whole name.
dest_file_name_keeps_ext(file) == file \o <<DOT, "txt">>

\* line 30: dest_file_name
dest_file_name(file) == splitext(file)[1] \o <<DOT, "txt">>

\* A slip of line 21: the source root is joined instead of the destination.
dest_path_in_source(root) == root

\* lines 20-21: relative_path and dest_path of the directory being visited
dest_path(root) == destination_dir \o root

\* A slip of line 18: dirs is rebound (dirs = [...]), which os.walk never sees.
PruneDirsRebound(ds) == ds

\* line 18: dirs[:] = [d for d in dirs if d not in skip_dirs]
PruneDirs(ds) == Keep(ds, skip_dirs)

\* ------------------------------------------------------- text file I/O
RECURSIVE Newlines(_)
\* Universal newlines of a text-mode read: "\r\n" and "\r" become "\n".
Newlines(bytes) ==
    IF bytes = <<>> THEN <<>>
    ELSE IF Head(bytes) = "CR"
         THEN IF Len(bytes) >= 2 /\ bytes[2] = "LF"
              THEN <<"LF">> \o Newlines(Tail(Tail(bytes)))
              ELSE <<"LF">> \o Newlines(Tail(bytes))
         ELSE <<Head(bytes)>> \o Newlines(Tail(bytes))

\* The bytes are valid UTF-8 ("BAD" is a byte that is not).
Decodable(bytes) == "BAD" \notin Range(bytes)

\* f.read() of a file opened with 'r', encoding='utf-8' (lines 34-35)
Decode(bytes) == Newlines(bytes)

\* os.linesep of the platform the paths of lines 3-4 are on
linesep == <<"LF">>

RECURSIVE Encode(_)
\* f_out.write(content) of a file opened with 'w', encoding='utf-8': every
\* "\n" is written as os.linesep (lines 36-37)
Encode(text) ==
    IF text = <<>> THEN <<>>
    ELSE (IF Head(text) = "LF" THEN linesep ELSE <<Head(text)>>) \o Encode(Tail(text))

\* ---------------------------------------------------------- file system
VARIABLES
    dirs,        \* the directories below source_dir, as paths
    files,       \* the files below source_dir: path -> bytes
    locked,      \* the directories os.scandir cannot list (permission denied)
    pc,          \* "idle", "walk", "files", "done" or "crashed"
    runs,        \* runs started so far
    stack,       \* os.walk: the directories still to list, next one first
    root,        \* line 16: the directory the loop body is in
    dirsList,    \* line 16: dirs, as pruned by line 18
    filesList,   \* line 24: the files of root the loop has not reached yet
    diag,        \* line 39: the source paths printed, in order
    visited,     \* history: the directories this run's walk yielded
    unlisted,    \* history: the directories this run's walk could not list
    log,         \* history: this run's copy attempts; nth counts the earlier
                 \* attempts at the same destination, after the lines
                 \* printed before it
    dirs0,       \* history: dirs when this run started
    files0,      \* history: files when this run started
    prevDone     \* history: the run before this one ran to completion

vars == <<dirs, files, locked, pc, runs, stack, root, dirsList, filesList,
          diag, visited, unlisted, log, dirs0, files0, prevDone>>

IsDir(ds, path) == path \in ds
IsFile(fs, path) == path \in DOMAIN fs

\* The names of the directories and of the other entries of directory d.
DirNames(ds, d) == { Last(p) : p \in { q \in ds : Len(q) = Len(d) + 1 /\ IsPrefix(d, q) } }
FileNames(fs, d) ==
    { Last(p) : p \in { q \in DOMAIN fs : Len(q) = Len(d) + 1 /\ IsPrefix(d, q) } }

Prefixes(path) == { SubSeq(path, 1, n) : n \in 0..Len(path) }

\* A variant of line 22 inside a try/except that passes.
makedirsGuarded(ds, fs, path) ==
    [ok |-> TRUE,
     dirs |-> ds \cup { p \in Prefixes(path) : \A q \in Prefixes(p) : ~IsFile(fs, q) }]

\* line 22: os.makedirs(dest_path, exist_ok=True) creates every missing
\* directory on the way; it raises when the path or one of its parents is a
\* file.  ok is FALSE when it raises, dirs is what exists afterwards.
\* (For source_dir itself the path is destination_dir + "/.", which passes
\* even over a file named googleone; no tree below holds such a file.)
makedirs(ds, fs, path) ==
    IF \E p \in Prefixes(path) : IsFile(fs, p)
    THEN [ok |-> FALSE,
          dirs |-> ds \cup { p \in Prefixes(path) :
                                \A q \in Prefixes(p) : ~IsFile(fs, q) }]
    ELSE [ok |-> TRUE, dirs |-> ds \cup Prefixes(path)]

\* A variant of lines 33-37 that leaves an existing destination file alone.
TryCopyKeepExisting(ds, fs, src, dst) ==
    IF ~IsFile(fs, src) \/ ~Decodable(fs[src])
    THEN [ok |-> FALSE, text |-> <<>>, files |-> fs]
    ELSE IF IsDir(ds, dst) \/ ~IsDir(ds, Front(dst))
    THEN [ok |-> FALSE, text |-> Decode(fs[src]), files |-> fs]
    ELSE [ok |-> TRUE, text |-> Decode(fs[src]),
          files |-> [p \in DOMAIN fs \cup {dst} |->
                        IF p = dst /\ ~IsFile(fs, dst)
                        THEN Encode(Decode(fs[src])) ELSE fs[p]]]

\* A variant of lines 33-37 that opens the destination before it reads.
TryCopyOpenFirst(ds, fs, src, dst) ==
    IF IsDir(ds, dst) \/ ~IsDir(ds, Front(dst))
    THEN [ok |-> FALSE, text |-> <<>>, files |-> fs]
    ELSE IF ~IsFile(fs, src) \/ ~Decodable(fs[src])
    THEN [ok |-> FALSE, text |-> <<>>,
          files |-> [p \in DOMAIN fs \cup {dst} |-> IF p = dst THEN <<>> ELSE fs[p]]]
    ELSE [ok |-> TRUE, text |-> Decode(fs[src]),
          files |-> [p \in DOMAIN fs \cup {dst} |->
                        IF p = dst THEN Encode(Decode(fs[src])) ELSE fs[p]]]

\* lines 33-37: the guarded section.  The source is opened and read to its
\* end first; only then is the destination opened with 'w' (created or
\* truncated) and written.  ok is FALSE when one of the two raises.
TryCopy(ds, fs, src, dst) ==
    IF ~IsFile(fs, src) \/ ~Decodable(fs[src])
    THEN [ok |-> FALSE, text |-> <<>>, files |-> fs]
    ELSE IF IsDir(ds, dst) \/ ~IsDir(ds, Front(dst))
    THEN [ok |-> FALSE, text |-> Decode(fs[src]), files |-> fs]
    ELSE [ok |-> TRUE, text |-> Decode(fs[src]),
          files |-> [p \in DOMAIN fs \cup {dst} |->
                        IF p = dst THEN Encode(Decode(fs[src])) ELSE fs[p]]]

\* Lines 33-39 without the try: the error ends the script.
ExceptHandlerMissing(out, src) == [pc |-> "crashed", diag |-> out]

\* lines 38-39: except Exception: print the path and go on with the loop
ExceptHandler(out, src) == [pc |-> "files", diag |-> Append(out, src)]

\* A walk that lists top again after the body instead of using dirs.
PushSubdirsRelisted(top, ds, waiting) ==
    LET now == CHOOSE o \in Orders(DirNames(dirs, top) \ skip_dirs) : TRUE
    IN  [i \in 1..Len(now) |-> top \o <<now[i]>>] \o waiting

\* os.walk, after the body: the subdirectories left in dirs go on the stack
\* in order, in front of what is already waiting (depth first).
PushSubdirs(top, ds, waiting) ==
    [i \in 1..Len(ds) |-> top \o <<ds[i]>>] \o waiting

\* ------------------------------------------------------- initial trees
F(path, bytes) == [kind |-> "file", path |-> path, bytes |-> bytes]
D(path) == [kind |-> "dir", path |-> path, bytes |-> <<>>]
L(path) == [kind |-> "locked", path |-> path, bytes |-> <<>>]

\* What the tree may hold before the first run.
Entries ==
    { F(<< <<"config", DOT, "js">> >>, <<"x">>),
      F(<< <<"config", DOT, "json">> >>, <<"y">>),
      F(<< <<"config", DOT, "jsx">> >>, <<"BAD">>),
      F(<< <<"x", DOT, "d", DOT, "ts">> >>, <<"x", "CR", "LF">>),
      F(<< <<"README", DOT, "md">> >>, <<"x">>),
      F(<< <<"logo", DOT, "png">> >>, <<"BAD">>),
      F(<< <<"a">>, <<"f", DOT, "js">> >>, <<"y">>),
      F(<< <<"a">>, <<"f", DOT, "ts">> >>, <<"x">>),
      F(<< <<"a">>, <<"build">>, <<"b", DOT, "js">> >>, <<"x">>),
      F(<< <<"node_modules">>, <<"a">>, <<"f", DOT, "js">> >>, <<"x">>),
      D(<< <<"config", DOT, "txt">> >>),
      D(<< <<"googleone">>, <<"config", DOT, "txt">> >>),
      L(<< <<"a">> >>) }

TreeDirs(E) ==
    UNION { IF e.kind = "file" THEN Prefixes(Front(e.path)) ELSE Prefixes(e.path) : e \in E }
        \cup { <<>> }

TreeFiles(E) ==
    LET FE == { e \in E : e.kind = "file" } IN
    [p \in { e.path : e \in FE } |-> (CHOOSE e \in FE : e.path = p).bytes]

Init ==
    \E E \in SUBSET Entries :
        /\ Cardinality(E) <= MaxEntries
        /\ dirs = TreeDirs(E)
        /\ files = TreeFiles(E)
        /\ locked = { e.path : e \in { x \in E : x.kind = "locked" } }
        /\ pc = "idle"
        /\ runs = 0
        /\ stack = <<>>
        /\ root = <<>>
        /\ dirsList = <<>>
        /\ filesList = <<>>
        /\ diag = <<>>
        /\ visited = {}
        /\ unlisted = {}
        /\ log = {}
        /\ dirs0 = TreeDirs(E)
        /\ files0 = TreeFiles(E)
        /\ prevDone = FALSE

\* ------------------------------------------------------------- actions
\* The script is started: os.walk(source_dir) begins with source_dir.
StartRun ==
    /\ pc \in {"idle", "done", "crashed"}
    /\ runs < MaxRuns
    /\ runs' = runs + 1
    /\ pc' = "walk"
    /\ stack' = << <<>> >>
    /\ root' = <<>>
    /\ dirsList' = <<>>
    /\ filesList' = <<>>
    /\ diag' = <<>>
    /\ visited' = {}
    /\ unlisted' = {}
    /\ log' = {}
    /\ dirs0' = dirs
    /\ files0' = files
    /\ prevDone' = (pc = "done")
    /\ UNCHANGED <<dirs, files, locked>>

\* os.walk cannot list the next directory: with onerror left at None the
\* error is dropped and the directory is passed over.
ScanFail ==
    /\ pc = "walk"
    /\ stack # <<>>
    /\ Head(stack) \in locked
    /\ stack' = Tail(stack)
    /\ unlisted' = unlisted \cup {Head(stack)}
    /\ UNCHANGED <<dirs, files, locked, pc, runs, root, dirsList, filesList,
                   diag, visited, log, dirs0, files0, prevDone>>

\* os.walk lists the next directory and yields it; lines 18-22 prune dirs
\* and create the destination directory.
VisitDir ==
    /\ pc = "walk"
    /\ stack # <<>>
    /\ Head(stack) \notin locked
    /\ Len(dest_path(Head(stack))) <= MaxDepth
    /\ LET top == Head(stack)
           made == makedirs(dirs, files, dest_path(top))
       IN  /\ made.ok
           /\ \E ds \in Orders(DirNames(dirs, top)), fl \in Orders(FileNames(files, top)) :
                /\ dirsList' = PruneDirs(ds)
                /\ filesList' = fl
           /\ root' = top
           /\ stack' = Tail(stack)
           /\ visited' = visited \cup {top}
           /\ dirs' = made.dirs
           /\ pc' = "files"
    /\ UNCHANGED <<files, locked, runs, diag, unlisted, log, dirs0, files0, prevDone>>

\* The same, but os.makedirs raises: nothing catches it and the script ends.
VisitDirCrash ==
    /\ pc = "walk"
    /\ stack # <<>>
    /\ Head(stack) \notin locked
    /\ Len(dest_path(Head(stack))) <= MaxDepth
    /\ LET top == Head(stack)
           made == makedirs(dirs, files, dest_path(top))
       IN  /\ ~made.ok
           /\ root' = top
           /\ stack' = Tail(stack)
           /\ visited' = visited \cup {top}
           /\ dirs' = made.dirs
           /\ pc' = "crashed"
    /\ UNCHANGED <<files, locked, runs, dirsList, filesList, diag, unlisted, log,
                   dirs0, files0, prevDone>>

\* lines 25-27: the next file is excluded by name or by extension.
SkipFile ==
    /\ pc = "files"
    /\ filesList # <<>>
    /\ Excluded(Head(filesList))
    /\ filesList' = Tail(filesList)
    /\ UNCHANGED <<dirs, files, locked, pc, runs, stack, root, dirsList,
                   diag, visited, unlisted, log, dirs0, files0, prevDone>>

SrcOf(file) == root \o <<file>>
Attempt(src, dst, r) ==
    [src |-> src, dst |-> dst, ok |-> r.ok, text |-> r.text,
     nth |-> Cardinality({ e \in log : e.dst = dst }), after |-> Len(diag)]
DstOf(file) == dest_path(root) \o <<dest_file_name(file)>>

\* lines 29-37: the next file is read and written.
CopyFile ==
    /\ pc = "files"
    /\ filesList # <<>>
    /\ ~Excluded(Head(filesList))
    /\ LET src == SrcOf(Head(filesList))
           dst == DstOf(Head(filesList))
           r == TryCopy(dirs, files, src, dst)
       IN  /\ r.ok
           /\ files' = r.files
           /\ log' = log \cup {Attempt(src, dst, r)}
    /\ filesList' = Tail(filesList)
    /\ UNCHANGED <<dirs, locked, pc, runs, stack, root, dirsList, diag,
                   visited, unlisted, dirs0, files0, prevDone>>

\* lines 29-39: reading or writing the next file raises.
CopyFail ==
    /\ pc = "files"
    /\ filesList # <<>>
    /\ ~Excluded(Head(filesList))
    /\ LET src == SrcOf(Head(filesList))
           dst == DstOf(Head(filesList))
           r == TryCopy(dirs, files, src, dst)
           h == ExceptHandler(diag, src)
       IN  /\ ~r.ok
           /\ files' = r.files
           /\ log' = log \cup {Attempt(src, dst, r)}
           /\ pc' = h.pc
           /\ diag' = h.diag
    /\ filesList' = Tail(filesList)
    /\ UNCHANGED <<dirs, locked, runs, stack, root, dirsList, visited,
                   unlisted, dirs0, files0, prevDone>>

\* The body is through with root's files: os.walk goes on with the
\* subdirectories that are left in dirs.
FinishDir ==
    /\ pc = "files"
    /\ filesList = <<>>
    /\ stack' = PushSubdirs(root, dirsList, stack)
    /\ pc' = "walk"
    /\ UNCHANGED <<dirs, files, locked, runs, root, dirsList, filesList,
                   diag, visited, unlisted, log, dirs0, files0, prevDone>>

\* os.walk is exhausted: the loop and the script end.
FinishWalk ==
    /\ pc = "walk"
    /\ stack = <<>>
    /\ pc' = "done"
    /\ UNCHANGED <<dirs, files, locked, runs, stack, root, dirsList, filesList,
                   diag, visited, unlisted, log, dirs0, files0, prevDone>>

Step ==
    \/ ScanFail
    \/ VisitDir
    \/ VisitDirCrash
    \/ SkipFile
    \/ CopyFile
    \/ CopyFail
    \/ FinishDir
    \/ FinishWalk

Next == StartRun \/ Step

Spec == Init /\ [][Next]_vars

\* A started script keeps running: nothing in it waits.
FairSpec == Spec /\ WF_vars(Step)

\* ------------------------------------------------------------ properties
InDest(p) == IsPrefix(destination_dir, p)

\* A directory below a skip-named directory, or a skip-named directory.
UnderSkipDir(d) == \E i \in 1..Len(d) : d[i] \in skip_dirs

\* A directory the walk gets to: neither it nor a directory above it is
\* skip-named or impossible to list.
Walkable(d) ==
    /\ ~UnderSkipDir(d)
    /\ \A n \in 0..Len(d) : SubSeq(d, 1, n) \notin locked

\* Where the copy of the file at path p belongs.
MirrorOf(p) == destination_dir \o Front(p) \o <<splitext(Last(p))[1] \o <<DOT, "txt">>>>

\* The name ends with the literal suffix.
EndsWith(name, suffix) ==
    /\ Len(suffix) <= Len(name)
    /\ SubSeq(name, Len(name) - Len(suffix) + 1, Len(name)) = suffix

\* Attempt f came after attempt e at the same destination file.
Later(e, f) == f.dst = e.dst /\ f.nth > e.nth

\* No copy after attempt e went to the same destination file.
LastTo(e) == \A f \in log : ~(Later(e, f) /\ f.ok)

\* The tree below the destination root: its files and their contents.
DestTree(fs) == [p \in { q \in DOMAIN fs : InDest(q) } |-> fs[p]]

\* The next step of the loop is a copy that raises.
CopyRaises ==
    /\ pc = "files"
    /\ filesList # <<>>
    /\ ~Excluded(Head(filesList))
    /\ \/ ~Decodable(files[SrcOf(Head(filesList))])
       \/ IsDir(dirs, DstOf(Head(filesList)))

\* The next step of the loop is a copy whose read raises.
ReadRaises ==
    /\ pc = "files"
    /\ filesList # <<>>
    /\ ~Excluded(Head(filesList))
    /\ ~Decodable(files[SrcOf(Head(filesList))])

\* The destination directory of d cannot be created: a file is in the way.
Obstructed(d) == \E p \in Prefixes(dest_path(d)) : IsFile(files, p)

\* C1 as stated, read in its favour (only files that were outside the
\* destination when the run started, that hold text, with every directory
\* listable and no directory in the way of the copy): after a complete run
\* every such file that lies below no skip-named directory and is not
\* excluded has its copy, with the same text, at the mirrored path under the
\* name <base name>.txt.
C1_EveryFileMirrored ==
    pc = "done" =>
        \A p \in DOMAIN files0 :
            (/\ ~InDest(p)
             /\ Walkable(Front(p))
             /\ ~Excluded(Last(p))
             /\ Decodable(files0[p])
             /\ ~IsDir(dirs0, MirrorOf(p)))
            => /\ IsFile(files, MirrorOf(p))
               /\ Decodable(files[MirrorOf(p)])
               /\ Decode(files[MirrorOf(p)]) = Decode(files[p])

\* C1 as amended: after a complete run every file that was outside the
\* destination when the run started, in a directory the walk gets to (below
\* no skip-named and no unlistable directory), that is not excluded, holds
\* text, finds no directory at its destination name and was not followed by
\* a copy of another file to the same destination name, has its copy, with
\* the same text, at the mirrored path under the name <base name>.txt.
C1_FileMirroredUnlessLost ==
    pc = "done" =>
        \A p \in DOMAIN files0 :
            (/\ ~InDest(p)
             /\ Walkable(Front(p))
             /\ ~Excluded(Last(p))
             /\ Decodable(files0[p])
             /\ ~IsDir(dirs0, MirrorOf(p))
             /\ \A e \in log :
                    (e.ok /\ e.dst = MirrorOf(p) /\ e.src # p)
                    => \E f \in log : Later(e, f) /\ f.ok /\ f.src = p)
            => /\ IsFile(files, MirrorOf(p))
               /\ files[MirrorOf(p)] = Encode(Decode(files[p]))
               /\ Decode(files[MirrorOf(p)]) = Decode(files[p])

\* C1 witness: a complete run copied a file with "\r\n" line ends and a
\* file of a subdirectory.
C1_Witness ==
    /\ pc = "done"
    /\ \E p \in DOMAIN files0 :
        /\ ~InDest(p) /\ Walkable(Front(p)) /\ ~Excluded(Last(p))
        /\ Decodable(files0[p]) /\ "CR" \in Range(files0[p])
        /\ IsFile(files, MirrorOf(p))
    /\ \E p \in DOMAIN files0 : ~InDest(p) /\ Len(p) = 2 /\ IsFile(files, MirrorOf(p))

\* C2 as stated: a second run after a complete first one leaves the
\* destination tree (its files and their contents) as the first run left it.
C2_SecondRunChangesNothing ==
    (pc = "done" /\ prevDone) => DestTree(files) = DestTree(files0)

\* C3 as stated: no file whose name is in the skip-filename set or ends with
\* a suffix of the skip-extension set is read or copied.
C3_ExcludedNeverCopied ==
    \A e \in log :
        /\ Last(e.src) \notin skip_files
        /\ \A x \in skip_extensions : ~EndsWith(Last(e.src), x)

\* C4: the walk visits no skip-named directory and no directory below one,
\* queues none, copies no file from below one and creates no directory for
\* one in the destination tree.
C4_SkipDirsPruned ==
    /\ \A d \in visited \cup Range(stack) \cup unlisted : ~UnderSkipDir(d)
    /\ \A e \in log : ~UnderSkipDir(Front(e.src))
    /\ \A d \in dirs \ dirs0 : ~UnderSkipDir(d)

\* C4 witness: a complete run visited a directory that holds a skip-named
\* directory with a file below it.
C4_Witness ==
    /\ pc = "done"
    /\ \E p \in DOMAIN files0 : \E n \in 1..(Len(p) - 1) :
        /\ SubSeq(p, 1, n - 1) \in visited
        /\ p[n] \in skip_dirs
        /\ Decodable(files0[p]) /\ ~Excluded(Last(p))

\* C5 as stated: every directory and file that was below the source root
\* when the run started is still there with the same content, in every
\* state of the run.
C5_SourceNeverMutated ==
    /\ \A d \in dirs0 : IsDir(dirs, d)
    /\ \A p \in DOMAIN files0 : IsFile(files, p) /\ files[p] = files0[p]

\* C5 as amended: every directory and file that was below the source root
\* when the run started is still there in every state of the run, and every
\* such file outside the destination root has the same content.
C5_SourceOutsideDestNeverMutated ==
    /\ \A d \in dirs0 : IsDir(dirs, d)
    /\ \A p \in DOMAIN files0 : IsFile(files, p) /\ (~InDest(p) => files[p] = files0[p])

\* C5 witness: a second run, over a destination that holds the first run's
\* output, has copied a file.
C5_Witness ==
    /\ runs = 2 /\ prevDone
    /\ \E p \in DOMAIN files0 : InDest(p)
    /\ \E e \in log : e.ok /\ ~InDest(e.src)

\* C6: a run that has started comes to its end (it completes or an
\* unguarded error ends it).
C6_RunTerminates == (pc \in {"walk", "files"}) ~> (pc \in {"done", "crashed"})

\* C6 witness: a run over a destination left by an earlier run walked the
\* destination directory and completed.
C6_Witness ==
    /\ pc = "done"
    /\ prevDone
    /\ destination_dir \in dirs0
    /\ destination_dir \in visited
    /\ \E d \in dirs \ dirs0 : InDest(d)

\* C7: a copy that raises prints the source path and the loop goes on with
\* the next file; only a directory that cannot be created ends a run early;
\* and in a complete run every file met in a visited directory that is not
\* excluded was attempted, and copied when it holds text and no directory
\* has its destination name.
C7_FailureIsolated ==
    /\ [][CopyRaises =>
            /\ pc' = "files"
            /\ filesList' = Tail(filesList)
            /\ stack' = stack
            /\ diag' = Append(diag, SrcOf(Head(filesList)))]_vars
    /\ [](pc = "crashed" => Obstructed(root))
    /\ [](pc = "done" =>
            /\ \A d \in visited : \A n \in FileNames(files0, d) :
                  ~Excluded(n) => \E e \in log : e.src = d \o <<n>>
            /\ \A e \in log :
                  /\ e.ok <=> (Decodable(files[e.src]) /\ ~IsDir(dirs, e.dst))
                  /\ ~e.ok => e.src \in Range(diag))

\* C7 witness: a complete run in which a copy raised and a later file of the
\* same directory and a file of a later directory were copied.
C7_Witness ==
    /\ pc = "done"
    /\ \E e, f, g \in log :
        /\ ~e.ok /\ f.ok /\ g.ok
        /\ f.after > e.after /\ g.after > e.after
        /\ Front(e.src) = Front(f.src)
        /\ Front(e.src) # Front(g.src)

\* C8: when two files of one directory went to the same destination name,
\* after the run one file of that base name is at the mirrored path and
\* it holds the text of the one copied later.
C8_LastWriteWins ==
    pc = "done" =>
        \A e, f \in log :
            (e.ok /\ f.ok /\ Later(e, f) /\ LastTo(f))
            => /\ IsFile(files, f.dst)
               /\ files[f.dst] = Encode(Decode(files[f.src]))
               /\ Cardinality({ n \in FileNames(files, Front(f.dst)) :
                                  splitext(n)[1] = splitext(Last(f.src))[1] }) = 1

\* C8 witness: a complete run copied two files of different text to one
\* destination name.
C8_Witness ==
    /\ pc = "done"
    /\ \E e, f \in log : e.ok /\ f.ok /\ Later(e, f) /\ e.text # f.text

\* C9 as stated: once a directory the walk reached could not be listed, the
\* run enters no further directory and does not complete.
C9_UnlistableEndsRun == unlisted # {} => pc \notin {"files", "done"}

\* C9 as amended: a destination directory that cannot be created ends the
\* run there (the loop body is entered only with the destination directory
\* in place, and after the error nothing is created, copied or visited in
\* that run); a directory that cannot be listed is passed over, with
\* nothing below it visited or copied, and the walk goes on.
C9_OnlyMakedirsEndsRun ==
    /\ [](pc = "files" => IsDir(dirs, dest_path(root)))
    /\ [][(pc = "walk" /\ stack # <<>> /\ Head(stack) \notin locked
            /\ Obstructed(Head(stack)))
          => (pc' = "crashed" /\ files' = files)]_vars
    /\ [][(pc = "crashed" /\ runs' = runs)
          => UNCHANGED <<dirs, files, visited, log, diag>>]_vars
    /\ [][(pc = "walk" /\ stack # <<>> /\ Head(stack) \in locked)
          => (pc' = "walk" /\ stack' = Tail(stack)
              /\ UNCHANGED <<dirs, files, visited, log, diag>>)]_vars
    /\ [](\A u \in unlisted :
            /\ \A d \in visited : ~IsPrefix(u, d)
            /\ \A e \in log : ~IsPrefix(u, e.src))

\* C9 witness: a run ended by a destination directory that could not be
\* created, with a directory still waiting to be walked.
C9_Witness ==
    /\ pc = "crashed"
    /\ Obstructed(root)
    /\ stack # <<>>

\* C10: a copy whose read raises leaves every file and directory as it was.
C10_FailedReadTouchesNothing ==
    [][ReadRaises => (files' = files /\ dirs' = dirs)]_vars

\* C10 witness: a read raised for a file whose destination name was already
\* taken by the copy of an earlier file of the run, which is still there.
C10_Witness ==
    \E e, f \in log :
        /\ e.ok /\ ~f.ok /\ Later(e, f)
        /\ ~Decodable(files[f.src])
        /\ IsFile(files, f.dst)
        /\ files[f.dst] = Encode(e.text)
        /\ e.text # <<>>

\* The bound on the length of paths stops no run.
DepthBoundNotReached ==
    \A d \in Range(stack) \cup visited : Len(dest_path(d)) <= MaxDepth

====
